---- MODULE Spec2Model ----
(***************************************************************************)
(* Model of the call-graph builder (callgraph.py) and the taint analyzer   *)
(* (taintanalysis.py).  A syntax tree is a record with a kind field k; the *)
(* ast.NodeVisitor traversal is an explicit stack of (node, parent) pairs: *)
(* every visit_X handler of the source does its work and then calls        *)
(* generic_visit, i.e. the children are visited next, in field order.      *)
(***************************************************************************)
EXTENDS Naturals, Integers, Sequences, FiniteSets, TLC

\* ------------------------------------------------------------------ bounds
MaxStmts == 3          \* statements of the file of a single-file pass
MaxFileStmts == 2      \* statements of a file handed to MultiFileTaintAnalyzer
MaxDefs == 1           \* statements of a file handed to MultiFileCallGraphBuilder
MaxMerges == 2         \* files merged by MultiFileCallGraphBuilder over its life

\* ------------------------------------------------------- syntax tree nodes
NoneNode == [k |-> "None"]
Name(id) == [k |-> "Name", id |-> id]
Constant(s) == [k |-> "Constant", s |-> s]
Attribute(value, attr) == [k |-> "Attribute", value |-> value, attr |-> attr]
Call(func, args, lineno) == [k |-> "Call", func |-> func, args |-> args, lineno |-> lineno]
Subscript(value, slice) == [k |-> "Subscript", value |-> value, slice |-> slice]
BinOp(left, right) == [k |-> "BinOp", left |-> left, right |-> right]
List(elts) == [k |-> "List", elts |-> elts]
Dict(keys, values) == [k |-> "Dict", keys |-> keys, values |-> values]
Assign(targets, value) == [k |-> "Assign", targets |-> targets, value |-> value]
Expr(value) == [k |-> "Expr", value |-> value]
Return(value, lineno) == [k |-> "Return", value |-> value, lineno |-> lineno]
FunctionDef(name, body) == [k |-> "FunctionDef", name |-> name, body |-> body]
Module(body) == [k |-> "Module", body |-> body]

\* ast.iter_child_nodes: the child nodes of a node, in field order
iter_child_nodes(node) ==
    CASE node.k = "Module" -> node.body
      [] node.k = "FunctionDef" -> node.body
      [] node.k = "Assign" -> node.targets \o <<node.value>>
      [] node.k = "Expr" -> <<node.value>>
      [] node.k = "Return" -> IF node.value.k = "None" THEN <<>> ELSE <<node.value>>
      [] node.k = "Call" -> <<node.func>> \o node.args
      [] node.k = "Attribute" -> <<node.value>>
      [] node.k = "Subscript" -> <<node.value, node.slice>>
      [] node.k = "BinOp" -> <<node.left, node.right>>
      [] node.k = "List" -> node.elts
      [] node.k = "Dict" -> node.keys \o node.values
      [] OTHER -> <<>>

\* the stack entries generic_visit adds for a node: its children, first on top
Frames(node) ==
    LET ch == iter_child_nodes(node)
    IN [i \in 1..Len(ch) |-> [node |-> ch[i], parent |-> node]]

generic_visit(node, stack) == Frames(node) \o stack

\* --------------------------------------------------------------- get_name
RECURSIVE get_name(_, _)
get_name(node, name) ==
    IF node.k = "Name" THEN [none |-> FALSE, name |-> Append(name, node.id)]
    ELSE IF node.k = "Attribute" THEN get_name(node.value, Append(name, node.attr))
    ELSE [none |-> TRUE, name |-> <<>>]

\* name[::-1]
Reversed(s) == [i \in 1..Len(s) |-> s[Len(s) + 1 - i]]

\* ".".join(seq)
RECURSIVE Join(_)
Join(s) ==
    IF Len(s) = 0 THEN ""
    ELSE IF Len(s) = 1 THEN s[1]
    ELSE s[1] \o "." \o Join(Tail(s))

\* ---------------------------------------------------- TaintAnalyzer state
taint_sources == {"input", "os.environ.get"}
sensitive_sinks == {"eval", "exec", "os.system", "subprocess.run"}

\* TaintAnalyzer.__init__ ; stack and pc are the position of the traversal
TaintAnalyzer ==
    [tainted_vars |-> {}, tainted_collections |-> <<>>, tainted_functions |-> {},
     issues |-> <<>>, stack |-> <<>>, pc |-> "new"]

Issue(callname, lineno) == [sink |-> callname, line |-> lineno]

\* the ids of the targets that are plain names
NameTargets(targets) ==
    {targets[i].id : i \in {j \in 1..Len(targets) : targets[j].k = "Name"}}

\* _is_tainted: does evaluating it raise (get_name returned None, then name[::-1])
RECURSIVE _is_tainted(_, _), _is_tainted_raises(_, _)
_is_tainted(self, node) ==
    IF node.k = "Name" THEN node.id \in self.tainted_vars
    ELSE IF node.k = "Subscript" /\ node.value.k = "Name"
            /\ node.value.id \in DOMAIN self.tainted_collections THEN TRUE
    ELSE IF node.k = "Call" THEN
        LET r == get_name(node.func, <<>>)
        IN ~r.none /\ Join(Reversed(r.name)) \in self.tainted_functions
    ELSE IF node.k = "BinOp" THEN
        _is_tainted(self, node.left) \/ _is_tainted(self, node.right)
    ELSE FALSE

_is_tainted_raises(self, node) ==
    IF node.k = "Name" THEN FALSE
    ELSE IF node.k = "Subscript" /\ node.value.k = "Name"
            /\ node.value.id \in DOMAIN self.tainted_collections THEN FALSE
    ELSE IF node.k = "Call" THEN get_name(node.func, <<>>).none
    ELSE IF node.k = "BinOp" THEN
        \/ _is_tainted_raises(self, node.left)
        \/ /\ ~_is_tainted(self, node.left)
           /\ _is_tainted_raises(self, node.right)
    ELSE FALSE

\* _extract_tainted_elements; the keys of the Dict nodes of the input files are
\* string constants (key.s) or names (key.id)
_extract_tainted_elements(self, node) ==
    IF node.k = "List" THEN
        {node.elts[i].id : i \in {j \in 1..Len(node.elts) :
            node.elts[j].k = "Name" /\ node.elts[j].id \in self.tainted_vars}}
    ELSE IF node.k = "Dict" THEN
        {(IF node.keys[i].k = "Constant" THEN node.keys[i].s ELSE node.keys[i].id) :
            i \in {j \in 1..Len(node.values) :
                node.values[j].k = "Name" /\ node.values[j].id \in self.tainted_vars}}
    ELSE {}

\* the sink loop of visit_Call over node.args from index i on
RECURSIVE SinkLoop(_, _, _, _)
SinkLoop(self, node, callname, i) ==
    IF i > Len(node.args) THEN self
    ELSE IF _is_tainted_raises(self, node.args[i]) THEN [self EXCEPT !.pc = "TypeError"]
    ELSE IF _is_tainted(self, node.args[i]) THEN
        SinkLoop([self EXCEPT !.issues = Append(@, Issue(callname, node.lineno))],
                 node, callname, i + 1)
    ELSE SinkLoop(self, node, callname, i + 1)

\* visit_Call whose source rule tests the sink set
visit_Call_wrongset(self, node, parent) ==
    LET r == get_name(node.func, <<>>)
        callname == Join(Reversed(r.name))
        s1 == IF callname \in sensitive_sinks /\ parent.k = "Assign"
              THEN [self EXCEPT !.tainted_vars = @ \cup NameTargets(parent.targets)]
              ELSE self
        s2 == IF callname \in sensitive_sinks THEN SinkLoop(s1, node, callname, 1) ELSE s1
        s3 == IF callname \in s2.tainted_functions /\ parent.k = "Assign"
              THEN [s2 EXCEPT !.tainted_vars = @ \cup NameTargets(parent.targets)]
              ELSE s2
    IN IF r.none THEN [self EXCEPT !.pc = "TypeError"]
       ELSE IF s2.pc = "TypeError" THEN s2
       ELSE [s3 EXCEPT !.stack = generic_visit(node, @)]

visit_Call(self, node, parent) ==
    LET r == get_name(node.func, <<>>)
        callname == Join(Reversed(r.name))
        s1 == IF callname \in taint_sources /\ parent.k = "Assign"
              THEN [self EXCEPT !.tainted_vars = @ \cup NameTargets(parent.targets)]
              ELSE self
        s2 == IF callname \in sensitive_sinks THEN SinkLoop(s1, node, callname, 1) ELSE s1
        s3 == IF callname \in s2.tainted_functions /\ parent.k = "Assign"
              THEN [s2 EXCEPT !.tainted_vars = @ \cup NameTargets(parent.targets)]
              ELSE s2
    IN IF r.none THEN [self EXCEPT !.pc = "TypeError"]
       ELSE IF s2.pc = "TypeError" THEN s2
       ELSE [s3 EXCEPT !.stack = generic_visit(node, @)]

\* visit_Assign that never records a collection
visit_Assign_nocollections(self, node) ==
    LET s1 == IF node.value.k = "Name" /\ node.value.id \in self.tainted_vars
              THEN [self EXCEPT !.tainted_vars = @ \cup NameTargets(node.targets)]
              ELSE self
    IN [s1 EXCEPT !.stack = generic_visit(node, @)]

\* visit_Assign that clears the targets of an assignment of an untainted value
visit_Assign_kill(self, node) ==
    LET s1 == IF node.value.k = "Name" /\ node.value.id \in self.tainted_vars
              THEN [self EXCEPT !.tainted_vars = @ \cup NameTargets(node.targets)]
              ELSE [self EXCEPT !.tainted_vars = @ \ NameTargets(node.targets)]
        elems == _extract_tainted_elements(s1, node.value)
        names == NameTargets(node.targets)
        s2 == IF node.value.k \in {"List", "Dict"}
              THEN [s1 EXCEPT !.tainted_collections =
                        [x \in (DOMAIN @) \cup names |-> IF x \in names THEN elems ELSE @[x]]]
              ELSE s1
    IN [s2 EXCEPT !.stack = generic_visit(node, @)]

visit_Assign(self, node) ==
    LET s1 == IF node.value.k = "Name" /\ node.value.id \in self.tainted_vars
              THEN [self EXCEPT !.tainted_vars = @ \cup NameTargets(node.targets)]
              ELSE self
        elems == _extract_tainted_elements(s1, node.value)
        names == NameTargets(node.targets)
        s2 == IF node.value.k \in {"List", "Dict"}
              THEN [s1 EXCEPT !.tainted_collections =
                        [x \in (DOMAIN @) \cup names |-> IF x \in names THEN elems ELSE @[x]]]
              ELSE s1
    IN [s2 EXCEPT !.stack = generic_visit(node, @)]

\* the FunctionDef bodies directly inside a list of statements, concatenated
RECURSIVE NestedBodies(_)
NestedBodies(body) ==
    IF Len(body) = 0 THEN <<>>
    ELSE (IF body[1].k = "FunctionDef" THEN body[1].body ELSE <<>>) \o NestedBodies(Tail(body))

\* the Return nodes ast.walk(node) finds under a list of statements (breadth first)
RECURSIVE Returns(_)
Returns(body) ==
    IF Len(body) = 0 THEN <<>>
    ELSE SelectSeq(body, LAMBDA st : st.k = "Return") \o Returns(NestedBodies(body))

visit_FunctionDef(self, node) ==
    LET rets == Returns(node.body)
        idx == 1..Len(rets)
        \* the first return whose test raises, if any
        bad == {i \in idx : _is_tainted_raises(self, rets[i].value)}
        seen == {i \in idx : \A j \in bad : i < j}
        hit == \E i \in seen : _is_tainted(self, rets[i].value)
        s1 == IF hit THEN [self EXCEPT !.tainted_functions = @ \cup {node.name}] ELSE self
    IN IF bad # {} THEN [s1 EXCEPT !.pc = "TypeError"]
       ELSE [s1 EXCEPT !.stack = generic_visit(node, @)]

visit_Return(self, node) ==
    IF _is_tainted_raises(self, node.value) THEN [self EXCEPT !.pc = "TypeError"]
    ELSE [self EXCEPT !.stack = generic_visit(node, @)]

\* NodeVisitor.visit: dispatch on the node kind for the frame on top of the stack
visit(self) ==
    LET top == Head(self.stack)
        node == top.node
        rest == [self EXCEPT !.stack = Tail(@)]
    IN CASE node.k = "Call" -> visit_Call(rest, node, top.parent)
         [] node.k = "Assign" -> visit_Assign(rest, node)
         [] node.k = "FunctionDef" -> visit_FunctionDef(rest, node)
         [] node.k = "Return" -> visit_Return(rest, node)
         [] OTHER -> [rest EXCEPT !.stack = generic_visit(node, @)]

\* analyze(tree): run the traversal to its end (or to the raised error)
RECURSIVE RunVisit(_)
RunVisit(self) ==
    IF self.pc = "TypeError" THEN self
    ELSE IF Len(self.stack) = 0 THEN [self EXCEPT !.pc = "done"]
    ELSE RunVisit(visit(self))

analyze(self, tree) ==
    RunVisit([self EXCEPT !.stack = <<[node |-> tree, parent |-> NoneNode]>>, !.pc = "visit"])

\* ------------------------------------------------------- CallGraphBuilder
\* d[key] = value on a dict
DictSet(d, key, value) ==
    [x \in (DOMAIN d) \cup {key} |-> IF x = key THEN value ELSE d[x]]

\* CallGraphBuilder.__init__ ; stack and pc are the position of the traversal
CallGraphBuilder ==
    [call_graph |-> <<>>, current_function |-> "None", stack |-> <<>>, pc |-> "new"]

\* the frame that stands for the statement after generic_visit in visit_FunctionDef
EndFunctionDef(node) == [node |-> [k |-> "EndFunctionDef"], parent |-> node]

\* visit_FunctionDef that keeps the context of the enclosing function
CG_visit_FunctionDef_norebind(self, node) ==
    [self EXCEPT
        !.current_function = IF @ = "None" THEN node.name ELSE @,
        !.call_graph = IF node.name \in DOMAIN @ THEN @ ELSE DictSet(@, node.name, {}),
        !.stack = Frames(node) \o <<EndFunctionDef(node)>> \o @]

CG_visit_FunctionDef(self, node) ==
    [self EXCEPT
        !.current_function = node.name,
        !.call_graph = IF node.name \in DOMAIN @ THEN @ ELSE DictSet(@, node.name, {}),
        !.stack = Frames(node) \o <<EndFunctionDef(node)>> \o @]

\* self.current_function = None, after the body has been visited
CG_end_FunctionDef(self) == [self EXCEPT !.current_function = "None"]

CG_visit_Call(self, node) ==
    LET cf == self.current_function
        s1 == IF cf # "None" /\ node.func.k = "Name"
              THEN [self EXCEPT !.call_graph[cf] = @ \cup {node.func.id}]
              ELSE IF cf # "None" /\ node.func.k = "Attribute"
              THEN [self EXCEPT !.call_graph[cf] = @ \cup {node.func.attr}]
              ELSE self
    IN [s1 EXCEPT !.stack = generic_visit(node, @)]

CG_visit(self) ==
    LET top == Head(self.stack)
        node == top.node
        rest == [self EXCEPT !.stack = Tail(@)]
    IN CASE node.k = "FunctionDef" -> CG_visit_FunctionDef(rest, node)
         [] node.k = "EndFunctionDef" -> CG_end_FunctionDef(rest)
         [] node.k = "Call" -> CG_visit_Call(rest, node)
         [] OTHER -> [rest EXCEPT !.stack = generic_visit(node, @)]

RECURSIVE CG_RunVisit(_)
CG_RunVisit(self) ==
    IF Len(self.stack) = 0 THEN [self EXCEPT !.pc = "done"]
    ELSE CG_RunVisit(CG_visit(self))

\* builder = CallGraphBuilder(); builder.visit(ast_tree); builder.call_graph
BuiltCallGraph(ast_tree) ==
    CG_RunVisit([CallGraphBuilder EXCEPT
        !.stack = <<[node |-> ast_tree, parent |-> NoneNode]>>, !.pc = "visit"]).call_graph

\* build_call_graph with one builder shared by all the files
build_call_graph_shared(global, file_name, ast_tree) ==
    LET own == BuiltCallGraph(ast_tree)
        prior == UNION {DOMAIN global[f] : f \in DOMAIN global}
        cg == [fn \in prior \cup DOMAIN own |-> IF fn \in DOMAIN own THEN own[fn] ELSE {}]
    IN IF DOMAIN cg = {} THEN global ELSE DictSet(global, file_name, cg)

\* build_call_graph that replaces the entry of the file
build_call_graph_replace(global, file_name, ast_tree) ==
    LET cg == BuiltCallGraph(ast_tree)
    IN IF DOMAIN cg = {} THEN global ELSE DictSet(global, file_name, cg)

\* one iteration of the loop of build_call_graph
build_call_graph(global, file_name, ast_tree) ==
    LET cg == BuiltCallGraph(ast_tree)
    IN IF DOMAIN cg = {} THEN global
       ELSE DictSet(global, file_name,
                [fn \in (IF file_name \in DOMAIN global THEN DOMAIN global[file_name] ELSE {})
                            \cup DOMAIN cg |->
                    IF fn \in DOMAIN cg THEN cg[fn] ELSE global[file_name][fn]])

\* ------------------------------------------------ MultiFileTaintAnalyzer
\* analyze_file whose analyzer starts from the global tainted variables
analyze_file_seeded(mf, file_name, ast_tree) ==
    LET local_taint_analyzer ==
            analyze([TaintAnalyzer EXCEPT !.tainted_vars = mf.tainted_vars], ast_tree)
    IN IF local_taint_analyzer.pc # "done" THEN [mf EXCEPT !.pc = local_taint_analyzer.pc]
       ELSE [mf EXCEPT
                !.tainted_vars = @ \cup local_taint_analyzer.tainted_vars,
                !.issues = @ \o local_taint_analyzer.issues,
                !.filewise_taint = DictSet(@, file_name, local_taint_analyzer.tainted_vars)]

\* analyze_file: a new TaintAnalyzer runs over the tree, then its results are
\* folded into the global state; an error raised by the pass leaves it as it was
analyze_file(mf, file_name, ast_tree) ==
    LET local_taint_analyzer == analyze(TaintAnalyzer, ast_tree)
    IN IF local_taint_analyzer.pc # "done" THEN [mf EXCEPT !.pc = local_taint_analyzer.pc]
       ELSE [mf EXCEPT
                !.tainted_vars = @ \cup local_taint_analyzer.tainted_vars,
                !.issues = @ \o local_taint_analyzer.issues,
                !.filewise_taint = DictSet(@, file_name, local_taint_analyzer.tainted_vars)]

\* ------------------------------------------------------------ input files
\* The statements the input files are made of; l is the line the statement
\* starts on, Lines(i) the number of lines it takes.
Stmt(i, l) ==
    CASE i = 1 -> Assign(<<Name("x")>>, Call(Name("input"), <<>>, l))
      [] i = 2 -> Expr(Call(Name("eval"), <<Name("x")>>, l))
      [] i = 3 -> Assign(<<Name("y")>>, Name("x"))
      [] i = 4 -> Expr(Call(Attribute(Name("os"), "system"),
                            <<BinOp(Name("y"), Name("x"))>>, l))
      [] i = 5 -> Assign(<<Name("lst")>>,
                         List(<<Call(Name("input"), <<>>, l), Constant("safe")>>))
      [] i = 6 -> Expr(Call(Name("eval"), <<Subscript(Name("lst"), Constant("1"))>>, l))
      [] i = 7 -> Assign(<<Name("lst")>>, List(<<Constant("a"), Constant("b")>>))
      [] i = 8 -> Assign(<<Name("lst")>>, List(<<Name("x"), Constant("safe")>>))
      [] i = 9 -> FunctionDef("leak", <<Return(Name("x"), l + 1)>>)
      [] i = 10 -> Assign(<<Name("x")>>, Call(Name("leak"), <<>>, l))
      [] i = 11 -> Expr(Call(Name("exec"), <<Name("y"), Name("x")>>, l))
      [] i = 12 -> Expr(Call(Attribute(Call(Name("foo"), <<>>, l), "bar"), <<Name("x")>>, l))
      [] i = 13 -> Expr(Call(Name("input"), <<>>, l))
      [] i = 14 -> Assign(<<Name("lst")>>, Dict(<<Constant("k")>>, <<Name("x")>>))
      [] i = 15 -> Assign(<<Subscript(Name("a"), Constant("0")), Name("y")>>,
                          Call(Attribute(Attribute(Name("os"), "environ"), "get"),
                               <<Constant("K")>>, l))
      [] i = 16 -> FunctionDef("outer",
                     <<FunctionDef("inner", <<Expr(Call(Name("helper"), <<>>, l + 2))>>)>>)
      [] i = 17 -> FunctionDef("outer",
                     <<FunctionDef("inner", <<Expr(Call(Name("helper"), <<>>, l + 2))>>),
                       Expr(Call(Name("g"), <<>>, l + 3))>>)
      [] i = 18 -> FunctionDef("f",
                     <<Expr(Call(Attribute(Name("obj"), "method"),
                                 <<Call(Name("g"), <<>>, l + 1)>>, l + 1))>>)
      [] i = 19 -> FunctionDef("g", <<Expr(Constant("pass"))>>)
      [] i = 20 -> Expr(Call(Name("helper"), <<>>, l))
      [] i = 21 -> FunctionDef("f",
                     <<Expr(Call(Call(Name("foo"), <<>>, l + 1), <<>>, l + 1))>>)
      [] OTHER -> FunctionDef("f", <<Expr(Call(Name("helper"), <<>>, l + 1))>>)

Lines(i) ==
    CASE i \in {9, 18, 19, 21, 22} -> 2
      [] i = 16 -> 3
      [] i = 17 -> 4
      [] OTHER -> 1

TaintPool == 1..15
CallPool == 16..22
MultiTaintPool == {1, 2, 9, 10, 12}
MergePool == {16, 18, 20, 22}
FileIds == {"a.py", "b.py"}

\* ast.parse of the file whose statements are src (a sequence of Stmt indices)
RECURSIVE ParseBody(_, _)
ParseBody(src, l) ==
    IF Len(src) = 0 THEN <<>>
    ELSE <<Stmt(src[1], l)>> \o ParseBody(Tail(src), l + Lines(src[1]))

parse(src) == Module(ParseBody(src, 1))

\* the sources of at most n statements over a pool
Sources(pool, n) == UNION {[1..m -> pool] : m \in 1..n}

\* the file names of a python_files_ast mapping of m files, in the order
\* .items() yields them: distinct names
FileOrders(m) == {f \in [1..m -> FileIds] : \A i, j \in 1..m : f[i] = f[j] => i = j}

\* the (file_name, tree) items of the mapping with these names and sources
Items(ids, srcs) ==
    [i \in 1..Len(ids) |-> [file_name |-> ids[i], tree |-> parse(srcs[i])]]

\* ------------------------------------------------------------------ state
VARIABLES
    tree,                 \* the tree under traversal
    stack,                \* NodeVisitor position: frames still to visit
    pc,                   \* "visit", "done", or the error raised
    tainted_vars, tainted_collections, tainted_functions, issues,  \* TaintAnalyzer
    call_graph, current_function,                                  \* CallGraphBuilder
    python_files_ast,     \* the (file_name, tree) items still to process
    mf_tainted_vars, mf_issues, filewise_taint,                    \* MultiFileTaintAnalyzer
    global_call_graph,    \* MultiFileCallGraphBuilder
    merged                \* the (file_name, tree) items processed so far

taVars == <<tainted_vars, tainted_collections, tainted_functions, issues>>
cgVars == <<call_graph, current_function>>
mfVars == <<mf_tainted_vars, mf_issues, filewise_taint>>
vars == <<tree, stack, pc, taVars, cgVars, python_files_ast, mfVars,
          global_call_graph, merged>>

\* the objects a specification does not use stay as constructed
IdleTaint ==
    /\ tainted_vars = {} /\ tainted_collections = <<>>
    /\ tainted_functions = {} /\ issues = <<>>
IdleCG == call_graph = <<>> /\ current_function = "None"
IdleMulti ==
    /\ python_files_ast = <<>> /\ merged = <<>>
    /\ mf_tainted_vars = {} /\ mf_issues = <<>> /\ filewise_taint = <<>>
    /\ global_call_graph = <<>>

\* ------------------------------------------- TaintAnalyzer, one file pass
Self ==
    [tainted_vars |-> tainted_vars, tainted_collections |-> tainted_collections,
     tainted_functions |-> tainted_functions, issues |-> issues,
     stack |-> stack, pc |-> pc]

Becomes(r) ==
    /\ tainted_vars' = r.tainted_vars
    /\ tainted_collections' = r.tainted_collections
    /\ tainted_functions' = r.tainted_functions
    /\ issues' = r.issues
    /\ stack' = r.stack
    /\ pc' = r.pc
    /\ UNCHANGED <<tree, cgVars, python_files_ast, mfVars, global_call_graph, merged>>

Visiting(kinds) == pc = "visit" /\ Len(stack) > 0 /\ Head(stack).node.k \in kinds

TaintInit ==
    /\ \E src \in Sources(TaintPool, MaxStmts) : tree = parse(src)
    /\ stack = <<[node |-> tree, parent |-> NoneNode]>>
    /\ pc = "visit"
    /\ IdleTaint /\ IdleCG /\ IdleMulti

TA_visit_Call == Visiting({"Call"}) /\ Becomes(visit(Self))
TA_visit_Assign == Visiting({"Assign"}) /\ Becomes(visit(Self))
TA_visit_FunctionDef == Visiting({"FunctionDef"}) /\ Becomes(visit(Self))
TA_visit_Return == Visiting({"Return"}) /\ Becomes(visit(Self))
TA_generic_visit ==
    /\ Visiting({"Module", "Expr", "Name", "Constant", "Attribute", "Subscript",
                 "BinOp", "List", "Dict"})
    /\ Becomes(visit(Self))
TA_return == pc = "visit" /\ Len(stack) = 0 /\ Becomes([Self EXCEPT !.pc = "done"])

TaintNext ==
    \/ TA_visit_Call \/ TA_visit_Assign \/ TA_visit_FunctionDef
    \/ TA_visit_Return \/ TA_generic_visit \/ TA_return

SpecTaint == TaintInit /\ [][TaintNext]_vars

\* ---------------------------------------- CallGraphBuilder, one file pass
BuilderSelf ==
    [call_graph |-> call_graph, current_function |-> current_function,
     stack |-> stack, pc |-> pc]

BuilderBecomes(r) ==
    /\ call_graph' = r.call_graph
    /\ current_function' = r.current_function
    /\ stack' = r.stack
    /\ pc' = r.pc
    /\ UNCHANGED <<tree, taVars, python_files_ast, mfVars, global_call_graph, merged>>

BuilderInit ==
    /\ \E src \in Sources(CallPool, MaxStmts) : tree = parse(src)
    /\ stack = <<[node |-> tree, parent |-> NoneNode]>>
    /\ pc = "visit"
    /\ IdleTaint /\ IdleCG /\ IdleMulti

Builder_visit_FunctionDef == Visiting({"FunctionDef"}) /\ BuilderBecomes(CG_visit(BuilderSelf))
Builder_end_FunctionDef == Visiting({"EndFunctionDef"}) /\ BuilderBecomes(CG_visit(BuilderSelf))
Builder_visit_Call == Visiting({"Call"}) /\ BuilderBecomes(CG_visit(BuilderSelf))
Builder_generic_visit ==
    /\ Visiting({"Module", "Expr", "Name", "Constant", "Attribute"})
    /\ BuilderBecomes(CG_visit(BuilderSelf))
Builder_return ==
    pc = "visit" /\ Len(stack) = 0 /\ BuilderBecomes([BuilderSelf EXCEPT !.pc = "done"])

BuilderNext ==
    \/ Builder_visit_FunctionDef \/ Builder_end_FunctionDef \/ Builder_visit_Call
    \/ Builder_generic_visit \/ Builder_return

SpecBuilder == BuilderInit /\ [][BuilderNext]_vars

\* ---------------------------------------------- MultiFileCallGraphBuilder
MergeInit ==
    /\ tree = NoneNode /\ stack = <<>> /\ pc = "idle"
    /\ IdleTaint /\ IdleCG /\ IdleMulti

\* build_call_graph(python_files_ast) is called
Merge_call ==
    /\ pc = "idle"
    /\ \E m \in 1..Cardinality(FileIds) :
          /\ Len(merged) + m <= MaxMerges
          /\ \E ids \in FileOrders(m), srcs \in [1..m -> Sources(MergePool, MaxDefs)] :
                python_files_ast' = Items(ids, srcs)
    /\ pc' = "loop"
    /\ UNCHANGED <<tree, stack, taVars, cgVars, mfVars, global_call_graph, merged>>

\* one iteration of its loop
Merge_file ==
    /\ pc = "loop" /\ Len(python_files_ast) > 0
    /\ LET item == Head(python_files_ast)
       IN /\ global_call_graph' =
                build_call_graph(global_call_graph, item.file_name, item.tree)
          /\ merged' = Append(merged, item)
    /\ python_files_ast' = Tail(python_files_ast)
    /\ UNCHANGED <<tree, stack, pc, taVars, cgVars, mfVars>>

Merge_return ==
    /\ pc = "loop" /\ Len(python_files_ast) = 0
    /\ pc' = "idle"
    /\ UNCHANGED <<tree, stack, taVars, cgVars, python_files_ast, mfVars,
                   global_call_graph, merged>>

MergeNext == Merge_call \/ Merge_file \/ Merge_return

SpecMerge == MergeInit /\ [][MergeNext]_vars

\* ------------------------------------------------- MultiFileTaintAnalyzer
MFSelf ==
    [tainted_vars |-> mf_tainted_vars, issues |-> mf_issues,
     filewise_taint |-> filewise_taint, pc |-> pc]

\* analyze_files(python_files_ast) has been called on a new MultiFileTaintAnalyzer
MultiInit ==
    /\ tree = NoneNode /\ stack = <<>> /\ pc = "loop"
    /\ \E m \in 1..Cardinality(FileIds) :
          \E ids \in FileOrders(m), srcs \in [1..m -> Sources(MultiTaintPool, MaxFileStmts)] :
              python_files_ast = Items(ids, srcs)
    /\ merged = <<>>
    /\ mf_tainted_vars = {} /\ mf_issues = <<>> /\ filewise_taint = <<>>
    /\ global_call_graph = <<>>
    /\ IdleTaint /\ IdleCG

\* one iteration of the loop of analyze_files
Multi_analyze_file ==
    /\ pc = "loop" /\ Len(python_files_ast) > 0
    /\ LET item == Head(python_files_ast)
           r == analyze_file(MFSelf, item.file_name, item.tree)
       IN /\ mf_tainted_vars' = r.tainted_vars
          /\ mf_issues' = r.issues
          /\ filewise_taint' = r.filewise_taint
          /\ pc' = r.pc
          /\ merged' = Append(merged, item)
    /\ python_files_ast' = Tail(python_files_ast)
    /\ UNCHANGED <<tree, stack, taVars, cgVars, global_call_graph>>

Multi_return ==
    /\ pc = "loop" /\ Len(python_files_ast) = 0
    /\ pc' = "done"
    /\ UNCHANGED <<tree, stack, taVars, cgVars, python_files_ast, mfVars,
                   global_call_graph, merged>>

MultiNext == Multi_analyze_file \/ Multi_return

SpecMulti == MultiInit /\ [][MultiNext]_vars

\* ================================================================ claims
SinkIssues(iss, sink, line) == {i \in 1..Len(iss) : iss[i] = Issue(sink, line)}

\* the file  x = input() ; eval(x)
SourceSinkFile == parse(<<1, 2>>)

\* C1: for the file `x = input()` / `eval(x)` the pass raises nothing and ends
\* with exactly one issue, for sink eval at the line of the eval call (2), and
\* with x in tainted_vars.
C1_SourceToSink ==
    tree = SourceSinkFile =>
        /\ pc # "TypeError"
        /\ pc = "done" =>
              /\ issues = <<Issue("eval", 2)>>
              /\ "x" \in tainted_vars

C1_Witness == tree = SourceSinkFile /\ pc = "done" /\ Len(issues) = 1

\* the file  lst = [input(), "safe"] ; eval(lst[1])
PartlyTaintedListFile == parse(<<5, 6>>)
IndexExprs == {Constant("0"), Constant("1"), Constant("k"), Name("x"), Name("i")}

\* C5: for the file `lst = [input(), "safe"]` / `eval(lst[1])` the pass reports
\* an issue for the eval call (line 2); and at every point of any pass a
\* subscript on a variable whose collections entry holds a tainted element
\* tests tainted for every index expression.
C5_CollectionOverApprox ==
    /\ (tree = PartlyTaintedListFile /\ pc = "done") =>
            SinkIssues(issues, "eval", 2) # {}
    /\ tree = PartlyTaintedListFile => pc # "TypeError"
    /\ \A c \in DOMAIN tainted_collections :
          tainted_collections[c] # {} =>
              \A ix \in IndexExprs : _is_tainted(Self, Subscript(Name(c), ix))

C5_Witness ==
    tree = PartlyTaintedListFile /\ pc = "done" /\ SinkIssues(issues, "eval", 2) # {}

\* C6: within one file pass no step of the traversal removes a name from
\* tainted_vars.
C6_MonotonicTaint == [][tainted_vars \subseteq tainted_vars']_vars

C6_Witness == Cardinality(tainted_vars) >= 2 /\ pc = "visit" /\ Len(stack) > 0

\* C7: name resolution never fails: every visited call resolves to a name and
\* the pass never ends in an error.
C7_ResolutionNeverFails ==
    /\ Visiting({"Call"}) => ~get_name(Head(stack).node.func, <<>>).none
    /\ pc # "TypeError"

\* the file  lst = ["a", "b"] ; eval(lst[1])
CleanListFile == parse(<<7, 6>>)
Idents == {"x", "y", "lst", "a"}

\* C10: a subscript on a simple identifier tests tainted iff the identifier has
\* a non-empty entry in the collections table, and the file
\* `lst = ["a", "b"]` / `eval(lst[1])` yields no issue.
C10_SubscriptIffNonEmpty ==
    /\ \A c \in Idents :
          _is_tainted(Self, Subscript(Name(c), Constant("1")))
              <=> (c \in DOMAIN tainted_collections /\ tainted_collections[c] # {})
    /\ (tree = CleanListFile /\ pc = "done") => issues = <<>>

\* ---- MultiFileTaintAnalyzer
LeakFile == parse(<<1, 9>>)        \* x = input() ; def leak(): return x
CallerFile == parse(<<10, 2>>)     \* x = leak() ; eval(x)
LeakThenCaller ==
    /\ Len(merged) = 2 /\ pc = "done"
    /\ merged[1].tree = LeakFile /\ merged[2].tree = CallerFile
CallerThenLeak ==
    /\ Len(merged) = 2 /\ pc = "done"
    /\ merged[1].tree = CallerFile /\ merged[2].tree = LeakFile

\* C2 as stated: file A (leak returns a tainted value) processed before file B
\* (`x = leak()` / `eval(x)`) gives an issue for the eval call of file B.
C2_CrossFileIssue == LeakThenCaller => SinkIssues(mf_issues, "eval", 2) # {}

\* C2 amended: in either order the global issue list has no issue for the eval
\* call of file B and file B's tainted set is empty: file B is traversed by a
\* new analyzer whose tainted-functions set does not hold leak.
C2_PerFileIsolation ==
    (LeakThenCaller \/ CallerThenLeak) =>
        /\ SinkIssues(mf_issues, "eval", 2) = {}
        /\ \A i \in 1..2 :
              merged[i].tree = CallerFile => filewise_taint[merged[i].file_name] = {}
        /\ mf_tainted_vars = {"x"}

C2_Witness == LeakThenCaller /\ mf_issues = <<>> /\ DOMAIN filewise_taint = {"a.py", "b.py"}

\* ---- MultiFileCallGraphBuilder
DistinctFiles(items) ==
    \A i, j \in 1..Len(items) : items[i].file_name = items[j].file_name => i = j

Triples(g) ==
    {<<f, fn, g[f][fn]>> : <<f, fn>> \in
        UNION {{<<f2, fn2>> : fn2 \in DOMAIN g[f2]} : f2 \in DOMAIN g}}

\* the content a set of (file, tree) items stands for, whatever their order
ContentOf(items) ==
    UNION {{<<it.file_name, fn, BuiltCallGraph(it.tree)[fn]>> :
                fn \in DOMAIN BuiltCallGraph(it.tree)} : it \in items}

Range(seq) == {seq[i] : i \in 1..Len(seq)}

\* C3: when the files processed so far have distinct file ids, the content of
\* global_call_graph, as (file id, function, callee set) triples, is a function
\* of the set of files alone, the same for every processing order.
C3_OrderIndependent ==
    DistinctFiles(merged) => Triples(global_call_graph) = ContentOf(Range(merged))

C3_Witness ==
    /\ Len(merged) = 2 /\ DistinctFiles(merged) /\ pc = "idle"
    /\ Cardinality(DOMAIN global_call_graph) = 2

\* the positions of the history at which file f was merged
MergesOf(f) == {i \in 1..Len(merged) : merged[i].file_name = f}
LastMergeOf(f) == CHOOSE i \in MergesOf(f) : \A j \in MergesOf(f) : j <= i
Remerged(f) ==
    /\ Cardinality(MergesOf(f)) >= 2
    /\ DOMAIN BuiltCallGraph(merged[LastMergeOf(f)].tree) # {}

\* C8 as stated: after a file id has been merged again, its entry is the
\* per-file graph of the last tree alone.
C8_SecondMergeReplaces ==
    \A f \in FileIds :
        Remerged(f) => global_call_graph[f] = BuiltCallGraph(merged[LastMergeOf(f)].tree)

\* the per-file graph of each tree of the history
RECURSIVE GraphsOf(_)
GraphsOf(items) ==
    IF Len(items) = 0 THEN <<>>
    ELSE <<BuiltCallGraph(Head(items).tree)>> \o GraphsOf(Tail(items))

\* C8 amended: the second merge overwrites function by function: the entry of
\* a file holds every function any tree merged for that file defined, each with
\* the callee set of the last such tree; so a function only the first tree
\* defined remains, and the entry depends on no other file's merges.
C8_MergePerFunction ==
    LET graphs == GraphsOf(merged)
    IN \A f \in FileIds :
        LET fns == UNION {DOMAIN graphs[i] : i \in MergesOf(f)}
        IN IF fns = {} THEN f \notin DOMAIN global_call_graph
           ELSE /\ f \in DOMAIN global_call_graph
                /\ DOMAIN global_call_graph[f] = fns
                /\ \A fn \in fns :
                      LET definers == {i \in MergesOf(f) : fn \in DOMAIN graphs[i]}
                          last == CHOOSE i \in definers : \A j \in definers : j <= i
                      IN global_call_graph[f][fn] = graphs[last][fn]

C8_Witness ==
    \E f \in FileIds :
        /\ Remerged(f)
        /\ f \in DOMAIN global_call_graph
        /\ DOMAIN global_call_graph[f] # DOMAIN BuiltCallGraph(merged[LastMergeOf(f)].tree)

\* ---- CallGraphBuilder
\* the function definitions of a tree, nested ones included
RECURSIVE DefsIn(_)
DefsIn(body) ==
    IF Len(body) = 0 THEN {}
    ELSE (IF body[1].k = "FunctionDef" THEN {body[1]} \cup DefsIn(body[1].body) ELSE {})
         \cup DefsIn(Tail(body))

\* the names at the call sites under a node, nested function bodies excluded
RECURSIVE CallSites(_)
CallSites(node) ==
    (IF node.k = "Call" /\ node.func.k = "Name" THEN {node.func.id}
     ELSE IF node.k = "Call" /\ node.func.k = "Attribute" THEN {node.func.attr}
     ELSE {})
    \cup UNION {CallSites(c) : c \in {d \in Range(iter_child_nodes(node)) : d.k # "FunctionDef"}}

OwnCallSites(def) == UNION {CallSites(st) : st \in {d \in Range(def.body) : d.k # "FunctionDef"}}

\* outer contains inner, inner calls helper, outer itself does not
NestingCase ==
    \E o \in DefsIn(tree.body) :
        /\ o.name = "outer" /\ "helper" \notin OwnCallSites(o)
        /\ \E n \in DefsIn(o.body) : n.name = "inner" /\ "helper" \in OwnCallSites(n)

\* C4: when outer contains a nested inner that calls helper and outer has no
\* call to helper of its own, after the visit helper is in the callee set of
\* inner and not in that of outer.
C4_NestedCallBelongsToInner ==
    (pc = "done" /\ tree.k = "Module" /\ NestingCase) =>
        /\ {"inner", "outer"} \subseteq DOMAIN call_graph
        /\ "helper" \in call_graph["inner"]
        /\ "helper" \notin call_graph["outer"]

C4_Witness ==
    /\ pc = "done" /\ tree.k = "Module" /\ NestingCase
    /\ "inner" \in DOMAIN call_graph /\ call_graph["inner"] = {"helper"}

\* C9: after the visit the callee set of every function definition (of a name
\* defined once in the file) is exactly the set of names at the call sites of
\* its own body, a call placed after a nested definition included.
C9_ExactCallees ==
    (pc = "done" /\ tree.k = "Module") =>
        \A d \in DefsIn(tree.body) :
            (\A e \in DefsIn(tree.body) : e.name = d.name => e = d) =>
                /\ d.name \in DOMAIN call_graph
                /\ call_graph[d.name] = OwnCallSites(d)

====
